---------------------------- MODULE Spec2Model ----------------------------
(***************************************************************************)
(* A model of liquid_tags/notebook.py: the {% notebook %} tag that renders *)
(* an IPython notebook into a post.  Texts (directive markup, paths, file  *)
(* names) are sequences of one-character strings, so that the regular      *)
(* expression, int(), str.replace and the os.path functions are modelled   *)
(* by what they do to the characters.                                      *)
(***************************************************************************)
EXTENDS Integers, Sequences, FiniteSets, TLC

VARIABLES
    \* ---- the process: notebook() and its function attribute ----
    header_saved,   \* notebook.header_saved
    header_file,    \* content of _nb_header.html ([exists, data])
    fs_dirs,        \* directories of the file system (normalised paths)
    fs_files,       \* files written by open(new_name, 'wb')
    pc,             \* per thread: the position inside notebook()
    local,          \* per thread: the locals of the running call
    calls,          \* number of notebook() calls started so far
    hdr_log,        \* history: header-branch events, in order
    \* ---- the directive parser on its own ----
    markup,         \* the directive text handed to notebook()
    directive,      \* the components the text was built from
    argdict,        \* what lines 281-300 computed from it
    \* ---- SubCell.preprocess on its own ----
    IPYTHON_VERSION, heap, heap0, nb, nbc, start, end,
    \* ---- the output loop on its own ----
    conf,           \* NOTEBOOK_DIR, NOTEBOOK_OUTPUT, src, unique_key
    outputs,        \* resources['outputs']: entries not yet written
    written         \* entries written: name -> new_name

mainVars  == <<header_saved, header_file, pc, local, calls, hdr_log>>
fsVars    == <<fs_dirs, fs_files>>
parseVars == <<markup, directive, argdict>>
sliceVars == <<IPYTHON_VERSION, heap, heap0, nb, nbc, start, end>>
outVars   == <<conf, outputs, written>>
vars      == <<mainVars, fsVars, parseVars, sliceVars, outVars>>

(***************************************************************************)
(* Bounds of the model.                                                    *)
(***************************************************************************)
MaxWs    == 1   \* longest run of blanks between the tokens of a directive
MaxIdx   == 1   \* cell bounds written in a directive range over -MaxIdx..MaxIdx
MaxCells == 10  \* longest notebook handed to SubCell.preprocess
MaxCalls == 3   \* notebook() calls in one process run
MaxOutputs == 2 \* entries of resources['outputs'] in one conversion
MaxConcCalls == 2 \* notebook() calls in a run with two threads

(***************************************************************************)
(* Characters and texts.                                                   *)
(***************************************************************************)
WhiteSpace == {" ", "\t", "\n"}
DigitSeq   == <<"0", "1", "2", "3", "4", "5", "6", "7", "8", "9">>
Digits     == {DigitSeq[i] : i \in 1..10}
LowerCase  == {"a", "b", "c", "d", "e", "f", "g", "h", "i", "j", "k", "l", "m",
               "n", "o", "p", "q", "r", "s", "t", "u", "v", "w", "x", "y", "z"}
LangChars  == LowerCase \cup Digits \cup {"+", "-"}

\* the text t from position i (1-based) to its end
From(t, i) == SubSeq(t, i, Len(t))

\* whether the literal lit occurs in t at position i
StartsWithAt(t, i, lit) ==
    /\ i + Len(lit) - 1 <= Len(t)
    /\ \A k \in 1..Len(lit) : t[i + k - 1] = lit[k]

\* a greedy character class: the first position >= i whose character is not in S
RECURSIVE SkipClass(_, _, _)
SkipClass(t, i, S) ==
    IF i <= Len(t) /\ t[i] \in S THEN SkipClass(t, i + 1, S) ELSE i

\* \S+ taken greedily: the first position >= i holding white space
RECURSIVE SkipNonSpace(_, _)
SkipNonSpace(t, i) ==
    IF i <= Len(t) /\ t[i] \notin WhiteSpace THEN SkipNonSpace(t, i + 1) ELSE i

RECURSIVE Concat(_)
Concat(ss) == IF ss = <<>> THEN <<>> ELSE Head(ss) \o Concat(Tail(ss))

\* str(n) for an integer n
RECURSIVE NatToStr(_)
NatToStr(n) ==
    IF n < 10 THEN <<DigitSeq[n + 1]>>
    ELSE NatToStr(n \div 10) \o <<DigitSeq[(n % 10) + 1]>>

IntToStr(n) == IF n < 0 THEN <<"-">> \o NatToStr(-n) ELSE NatToStr(n)

DigitVal(c) == CHOOSE d \in 0..9 : DigitSeq[d + 1] = c

RECURSIVE DigitsToNat(_, _)
DigitsToNat(s, acc) ==
    IF s = <<>> THEN acc ELSE DigitsToNat(Tail(s), 10 * acc + DigitVal(Head(s)))

\* int(s) for the texts the pattern -?[0-9]* lets through: a ValueError when
\* no digit follows the optional sign
PyIntOf(neg, body) ==
    IF body = <<>> \/ \E k \in 1..Len(body) : body[k] \notin Digits
    THEN [ok |-> FALSE, val |-> 0]
    ELSE [ok |-> TRUE,
          val |-> IF neg THEN 0 - DigitsToNat(body, 0) ELSE DigitsToNat(body, 0)]

PyInt(s) ==
    IF s # <<>> /\ s[1] = "-" THEN PyIntOf(TRUE, Tail(s)) ELSE PyIntOf(FALSE, s)

\* Python's None, and a value that is not None
None    == [none |-> TRUE, val |-> <<>>]
Some(v) == [none |-> FALSE, val |-> v]
NoneInt == [none |-> TRUE, val |-> 0]

(***************************************************************************)
(* FORMAT (line 276) and the head of notebook() (lines 281-300).           *)
(***************************************************************************)
LitCells    == <<"c", "e", "l", "l", "s", "[">>
LitLanguage == <<"l", "a", "n", "g", "u", "a", "g", "e", "[">>

\* [0-9]* in place of -?[0-9]*: the sign forgotten
MatchBound_Unsigned(t, i) == SkipClass(t, i, Digits)

\* -?[0-9]* at position i: the position after it
MatchBound(t, i) ==
    SkipClass(t, IF i <= Len(t) /\ t[i] = "-" THEN i + 1 ELSE i, Digits)

NoCells    == [ok |-> FALSE, start |-> <<>>, end |-> <<>>, next |-> 0]
NoLanguage == [ok |-> FALSE, language |-> <<>>, next |-> 0]
NoGroups   == [ok |-> FALSE, start |-> None, end |-> None, language |-> None]
NoMatch    == [match |-> FALSE, src |-> <<>>, start |-> None, end |-> None,
               language |-> None]

\* the cells group with start in a0..a1-1 and end in a1+1..b1-1: the ':' and
\* the ']' have to be where the bounds stop
CellsGroup(t, a0, a1, b1) ==
    IF a1 <= Len(t) /\ t[a1] = ":" /\ b1 <= Len(t) /\ t[b1] = "]"
    THEN [ok |-> TRUE, start |-> SubSeq(t, a0, a1 - 1),
          end |-> SubSeq(t, a1 + 1, b1 - 1), next |-> b1 + 1]
    ELSE NoCells

CellsFrom(t, a0, a1) == CellsGroup(t, a0, a1, MatchBound(t, a1 + 1))

\* (cells\[)(?P<start>-?[0-9]*):(?P<end>-?[0-9]*)(\]) at position i
MatchCells(t, i) ==
    IF StartsWithAt(t, i, LitCells)
    THEN CellsFrom(t, i + Len(LitCells), MatchBound(t, i + Len(LitCells)))
    ELSE NoCells

LanguageGroup(t, a0, a1) ==
    IF a1 <= Len(t) /\ t[a1] = "]"
    THEN [ok |-> TRUE, language |-> SubSeq(t, a0, a1 - 1), next |-> a1 + 1]
    ELSE NoLanguage

\* -?[a-z0-9\+\-]* at position i: the position after it
MatchLang(t, i) ==
    SkipClass(t, IF i <= Len(t) /\ t[i] = "-" THEN i + 1 ELSE i, LangChars)

\* (language\[)(?P<language>-?[a-z0-9\+\-]*)(\]) at position i
MatchLanguage(t, i) ==
    IF StartsWithAt(t, i, LitLanguage)
    THEN LanguageGroup(t, i + Len(LitLanguage), MatchLang(t, i + Len(LitLanguage)))
    ELSE NoLanguage

\* (language...)?(\s+)?$ at position j, lg the language group matched there:
\* the group is tried present first and absent on backtracking
TailGroups(t, j, lg, st, en) ==
    IF lg.ok /\ SkipClass(t, lg.next, WhiteSpace) = Len(t) + 1
    THEN [ok |-> TRUE, start |-> st, end |-> en, language |-> Some(lg.language)]
    ELSE IF j = Len(t) + 1
    THEN [ok |-> TRUE, start |-> st, end |-> en, language |-> None]
    ELSE NoGroups

TailAt(t, j, st, en) == TailGroups(t, j, MatchLanguage(t, j), st, en)

\* (\s+)?(language...)?(\s+)?$ at position i, the cells group already decided
MatchAfterCells(t, i, st, en) == TailAt(t, SkipClass(t, i, WhiteSpace), st, en)

\* the cells group cl matched at position j and the rest after it, or the
\* rest without the group when that fails
CellsThenTail(t, j, cl, with) ==
    IF cl.ok /\ with.ok THEN with ELSE TailAt(t, j, None, None)

SrcTailAt(t, j, cl) ==
    CellsThenTail(t, j, cl,
                  IF cl.ok
                  THEN MatchAfterCells(t, cl.next, Some(cl.start), Some(cl.end))
                  ELSE NoGroups)

SrcTail(t, j) == SrcTailAt(t, j, MatchCells(t, j))

\* everything of FORMAT after the src group, src ending just before position e
MatchAfterSrc(t, e) == SrcTail(t, SkipClass(t, e, WhiteSpace))

GroupDict(src, r) ==
    [match |-> TRUE, src |-> src, start |-> r.start, end |-> r.end,
     language |-> r.language]

SrcEndingAt(t, i0, e) == GroupDict(SubSeq(t, i0, e - 1), MatchAfterSrc(t, e))

\* the longest src for which the rest of the pattern matches: the greedy \S+
\* gives back one character at a time
LongestSrc(t, i0, ends) ==
    IF ends = {} THEN NoMatch
    ELSE SrcEndingAt(t, i0, CHOOSE x \in ends : \A y \in ends : y <= x)

SearchFrom(t, i0) ==
    LongestSrc(t, i0, {e \in (i0 + 1)..SkipNonSpace(t, i0) : MatchAfterSrc(t, e).ok})

\* FORMAT.search(markup).groupdict(): ^ anchors the search at the start of the
\* text, and (\s+)? takes the blanks there
FORMAT_search(t) == SearchFrom(t, SkipClass(t, 1, WhiteSpace))

\* `if start: start = int(start) else: start = 0` (lines 292-295); a group
\* that is None or '' is falsy
StartOf(g) ==
    IF g.none \/ g.val = <<>> THEN [ok |-> TRUE, val |-> 0] ELSE PyInt(g.val)

IntOrNone(r) == [ok |-> r.ok, val |-> [none |-> FALSE, val |-> r.val]]

\* `if end: end = int(end) else: end = None` (lines 297-300)
EndOf(g) ==
    IF g.none \/ g.val = <<>> THEN [ok |-> TRUE, val |-> NoneInt]
    ELSE IntOrNone(PyInt(g.val))

Raised(err) ==
    [error |-> err, src |-> <<>>, start |-> 0, end |-> NoneInt, language |-> None]

ArgsOf(m, s, e) ==
    IF ~s.ok \/ ~e.ok THEN Raised("int")
    ELSE [error |-> "none", src |-> m.src, start |-> s.val, end |-> e.val,
          language |-> m.language]

ArgsOfMatch(m) ==
    IF ~m.match THEN Raised("syntax") ELSE ArgsOf(m, StartOf(m.start), EndOf(m.end))

\* lines 281-300: the arguments of the call, or the exception raised
\* ("syntax": the ValueError naming SYNTAX, line 289; "int": the ValueError
\* of int(), lines 293 and 298)
ParseMarkup(t) == ArgsOfMatch(FORMAT_search(t))

(***************************************************************************)
(* Directive texts: built from their components, so that what the parser   *)
(* recovers can be compared with what the text was written from.           *)
(***************************************************************************)
T_a      == <<"a">>
T_nb     == <<"d", "/", "n", ".", "i">>
T_dash   == <<"-">>
T_cells12 == LitCells \o <<"1", ":", "2", "]">>
T_py     == <<"p", "y">>
T_cpp    == <<"c", "+", "+">>
T_mx3    == <<"-", "x", "3">>

Blanks(k) == [i \in 1..k |-> " "]
WsRuns    == {Blanks(k) : k \in 0..MaxWs}
\* the blanks that end the path token: at least one
Sep1Runs  == (WsRuns \ {<<>>}) \cup {<<"\t">>}

\* a path is any token without white space, also one that looks like a clause
PathTokens == {T_a, T_nb, T_dash, T_cells12}

\* a bound as written, with the integer it denotes (empty: none written)
BoundTexts ==
    {[text |-> IntToStr(i), empty |-> FALSE, val |-> i] : i \in (0 - MaxIdx)..MaxIdx}
    \cup {[text |-> <<>>, empty |-> TRUE, val |-> 0],
          [text |-> <<"-", "0">>, empty |-> FALSE, val |-> 0],
          [text |-> <<"0", "1">>, empty |-> FALSE, val |-> 1],
          [text |-> <<"1", "0">>, empty |-> FALSE, val |-> 10]}

LangTexts == {<<>>, T_py, T_cpp, T_mx3}

NoBound == [text |-> <<>>, empty |-> TRUE, val |-> 0]

WellFormed ==
    [lead : WsRuns, path : PathTokens, sep1 : Sep1Runs, hasCells : {TRUE},
     a : BoundTexts, b : BoundTexts, sep2 : WsRuns, hasLang : BOOLEAN,
     lang : LangTexts, trail : WsRuns]
    \cup
    [lead : WsRuns, path : PathTokens, sep1 : Sep1Runs, hasCells : {FALSE},
     a : {NoBound}, b : {NoBound}, sep2 : {<<>>}, hasLang : BOOLEAN,
     lang : LangTexts, trail : WsRuns]

\* a directive with no language clause carries no language text
Canonical(d) == d.hasLang \/ d.lang = <<>>

TextOf(d) ==
    d.lead \o d.path
    \o (IF d.hasCells
        THEN d.sep1 \o LitCells \o d.a.text \o <<":">> \o d.b.text \o <<"]">>
        ELSE <<>>)
    \o (IF d.hasLang
        THEN (IF d.hasCells THEN d.sep2 ELSE d.sep1) \o LitLanguage \o d.lang \o <<"]">>
        ELSE <<>>)
    \o d.trail

\* what the grammar says the directive means
Meaning(d) ==
    [wellformed |-> TRUE,
     src      |-> d.path,
     start    |-> IF d.hasCells /\ ~d.a.empty THEN d.a.val ELSE 0,
     end      |-> IF d.hasCells /\ ~d.b.empty
                  THEN [none |-> FALSE, val |-> d.b.val] ELSE NoneInt,
     language |-> IF d.hasLang THEN Some(d.lang) ELSE None]

\* texts outside the grammar: what follows the path is no cells[...] clause
\* and no language[...] clause, or the clauses are in the wrong order
BadClauses ==
    {LitCells \o <<"a", "b", "c", ":", "2", "]">>,          \* cells[abc:2]
     LitCells \o <<"-", ":", "2", "]">>,                    \* cells[-:2]
     LitCells \o <<"1", ":", "-", "]">>,                    \* cells[1:-]
     LitCells \o <<"1", ":", "2">>,                         \* cells[1:2
     LitCells \o <<"1", " ", ":", "2", "]">>,               \* cells[1 :2]
     LitCells \o <<"1", ":", "2", "]", " ", "x">>,          \* cells[1:2] x
     LitLanguage \o <<"P", "]">>,                           \* language[P]
     LitLanguage \o <<"p", "y">>,                           \* language[py
     LitLanguage \o <<"p", "y", "]", " ">> \o T_cells12,    \* language[py] cells[1:2]
     T_cells12 \o <<" ">> \o T_cells12}                     \* cells[1:2] cells[1:2]

Malformed ==
    {[text |-> t] : t \in {w : w \in WsRuns} \cup {<<"\t">>}}
    \cup {[text |-> l \o p \o s \o c] :
            l \in WsRuns, p \in {T_a, T_nb}, s \in Sep1Runs, c \in BadClauses}

NoMeaning ==
    [wellformed |-> FALSE, src |-> <<>>, start |-> 0, end |-> NoneInt,
     language |-> None]

Unparsed ==
    [error |-> "unparsed", src |-> <<>>, start |-> 0, end |-> NoneInt,
     language |-> None]

(***************************************************************************)
(* The parser on its own: one text in, lines 281-300 applied to it.        *)
(***************************************************************************)
MainIdle ==
    /\ header_saved = FALSE /\ header_file = <<>> /\ pc = <<>> /\ local = <<>>
    /\ calls = 0 /\ hdr_log = <<>>
FsIdle    == fs_dirs = {} /\ fs_files = {}
ParseIdle == markup = <<>> /\ directive = NoMeaning /\ argdict = Unparsed
SliceIdle ==
    /\ IPYTHON_VERSION = 0 /\ heap = <<>> /\ heap0 = <<>> /\ nb = 0 /\ nbc = 0
    /\ start = 0 /\ end = NoneInt
OutIdle   == conf = <<>> /\ outputs = {} /\ written = {}

InitParse ==
    /\ \/ \E d \in WellFormed :
            Canonical(d) /\ markup = TextOf(d) /\ directive = Meaning(d)
       \/ \E m \in Malformed : markup = m.text /\ directive = NoMeaning
    /\ argdict = Unparsed
    /\ MainIdle /\ FsIdle /\ SliceIdle /\ OutIdle

\* lines 281-300 applied to the text
ParseStep ==
    /\ argdict.error = "unparsed"
    /\ argdict' = ParseMarkup(markup)
    /\ UNCHANGED <<markup, directive, mainVars, fsVars, sliceVars, outVars>>

SpecParse == InitParse /\ [][ParseStep]_vars

\* C2: every text written by the grammar <path> [cells[a:b]] [language[L]]
\* parses, and the parser recovers exactly the path, the two bounds and the
\* language it was written from; an omitted or empty first bound gives 0, an
\* omitted or empty second bound gives None, an omitted language gives None.
ParserRecoversDirective ==
    (directive.wellformed /\ argdict.error # "unparsed") =>
        /\ argdict.error = "none"
        /\ argdict.src = directive.src
        /\ argdict.start = directive.start
        /\ argdict.end = directive.end
        /\ argdict.language = directive.language

\* a directive with both clauses, a negative first bound, no second bound and
\* blanks on every side has been parsed
ParserWitness ==
    /\ directive.wellformed /\ argdict.error = "none"
    /\ argdict.start < 0 /\ argdict.end.none /\ ~argdict.language.none
    /\ Len(markup) > Len(argdict.src) + 2
    /\ markup[1] = " " /\ markup[Len(markup)] = " "

(***************************************************************************)
(* SubCell.preprocess (lines 246-255).  A notebook is an object of a heap; *)
(* on the older schema (IPYTHON_VERSION < 3) it holds worksheets, each an  *)
(* object with its own cell list, on the newer one it holds the cell list. *)
(* Cells are told apart by their identity.                                 *)
(***************************************************************************)
Min(a, b) == IF a < b THEN a ELSE b
Max(a, b) == IF a < b THEN b ELSE a

\* a bound below 0 taken for 0, not counted from the end
AdjustIndex_NoNegative(i, n) == Min(Max(i, 0), n)

\* a bound of a slice adjusted to a sequence of n items, as list.__getitem__
\* does it: a negative bound counts from the end, and both ends clamp
AdjustIndex(i, n) == IF i < 0 THEN Max(i + n, 0) ELSE Min(i, n)

\* s[start:end], a new list; end is an integer or None
PySlice(s, st, en) ==
    LET n  == Len(s)
        lo == AdjustIndex(st, n)
        hi == IF en.none THEN n ELSE AdjustIndex(en.val, n)
    IN  [k \in 1..Max(hi - lo, 0) |-> s[lo + k]]

Object(cells, worksheets) == [cells |-> cells, worksheets |-> worksheets]

\* no copy at all: nbc is nb
DeepCopy_Alias(h, root) == [heap |-> h, root |-> root]

\* copy.deepcopy(nb) (line 247): every object reachable from root is copied to
\* a fresh object, and the copies refer to copies
DeepCopy(h, root) ==
    LET top    == CHOOSE m \in DOMAIN h : \A o \in DOMAIN h : o <= m
        fresh(o) == o + top
        copies == [o \in {fresh(x) : x \in DOMAIN h} |->
                     LET x == o - top
                     IN  Object(h[x].cells,
                                [k \in 1..Len(h[x].worksheets) |->
                                    fresh(h[x].worksheets[k])])]
    IN  [heap |-> h @@ copies, root |-> fresh(root)]

\* the loop of lines 249-251: each worksheet of nbc gets its sliced cell list
RECURSIVE SliceWorksheets(_, _, _, _)
SliceWorksheets(h, ws, st, en) ==
    IF ws = <<>> THEN h
    ELSE LET w     == Head(ws)
             cells == PySlice(h[w].cells, 0, NoneInt)      \* worksheet.cells[:]
         IN  SliceWorksheets([h EXCEPT ![w].cells = PySlice(cells, st, en)],
                             Tail(ws), st, en)

\* SubCell.preprocess(nb, resources): the heap after the call and the notebook
\* it returns
preprocess(h, root, version, st, en) ==
    LET c == DeepCopy(h, root)
    IN  IF version < 3
        THEN [heap |-> SliceWorksheets(c.heap, c.heap[c.root].worksheets, st, en),
              nbc  |-> c.root]
        ELSE [heap |-> [c.heap EXCEPT ![c.root].cells = PySlice(@, st, en)],
              nbc  |-> c.root]

CellList(n) == [k \in 1..n |-> k]
\* the cells of a second worksheet
OtherCells == <<21, 22, 23>>

SliceBounds == (0 - (MaxCells + 2))..(MaxCells + 2)

InitSlice ==
    /\ IPYTHON_VERSION \in {2, 3}
    /\ nb = 1
    /\ \E n \in 0..MaxCells :
         IF IPYTHON_VERSION < 3
         THEN \/ heap = (1 :> Object(<<>>, <<2>>)) @@ (2 :> Object(CellList(n), <<>>))
              \/ heap = (1 :> Object(<<>>, <<2, 3>>)) @@ (2 :> Object(CellList(n), <<>>))
                        @@ (3 :> Object(OtherCells, <<>>))
         ELSE heap = (1 :> Object(CellList(n), <<>>))
    /\ heap0 = heap
    /\ nbc = 0
    /\ start \in SliceBounds
    /\ end \in {NoneInt} \cup {[none |-> FALSE, val |-> e] : e \in SliceBounds}
    /\ MainIdle /\ FsIdle /\ ParseIdle /\ OutIdle

\* the exporter calls the preprocessor once on the loaded notebook
Preprocess ==
    /\ nbc = 0
    /\ \E r \in {preprocess(heap, nb, IPYTHON_VERSION, start, end)} :
           heap' = r.heap /\ nbc' = r.nbc
    /\ UNCHANGED <<IPYTHON_VERSION, heap0, nb, start, end,
                   mainVars, fsVars, parseVars, outVars>>

SpecSlice == InitSlice /\ [][Preprocess]_vars

\* the cell lists of a notebook: one per worksheet, or the notebook's own
CellLists(h, root) ==
    IF IPYTHON_VERSION < 3
    THEN [k \in 1..Len(h[root].worksheets) |-> h[h[root].worksheets[k]].cells]
    ELSE <<h[root].cells>>

\* What s[st:en] is, said without computing bounds: the item at position p
\* (from 0) has the index p and the negative index p - n; it is selected when
\* its index of the sign of st is at least st and its index of the sign of en
\* is below en.
Selected(p, n, st, en) ==
    /\ IF st >= 0 THEN p >= st ELSE p - n >= st
    /\ en.none \/ (IF en.val >= 0 THEN p < en.val ELSE p - n < en.val)

IsSliceOf(res, orig, st, en) ==
    LET n   == Len(orig)
        sel == {p \in 0..(n - 1) : Selected(p, n, st, en)}
    IN  /\ Len(res) = Cardinality(sel)
        /\ \A k \in 1..Len(res) :
             /\ \E p \in sel : /\ Cardinality({q \in sel : q < p}) = k - 1
                               /\ res[k] = orig[p + 1]

\* C3: the notebook SubCell.preprocess returns holds, in every cell list, the
\* Python slice [start:end] of the list it was given: bounds out of range
\* clamp, negative bounds count from the end, no end means through the last
\* cell; [0:None] gives the list itself, [-2:None] its last two cells, and
\* [2:5] of ten cells the cells 2, 3, 4.
PreprocessIsPythonSlice ==
    nbc # 0 =>
        LET before == CellLists(heap0, nb)
            after  == CellLists(heap, nbc)
        IN  /\ Len(after) = Len(before)
            /\ \A k \in 1..Len(before) :
                 LET orig == before[k]
                     res  == after[k]
                     n    == Len(orig)
                 IN  /\ IsSliceOf(res, orig, start, end)
                     /\ (start = 0 /\ end.none) => res = orig
                     /\ (start = 0 /\ ~end.none /\ end.val >= n) => res = orig
                     /\ (start = 0 - 2 /\ end.none /\ n >= 2) =>
                            res = <<orig[n - 1], orig[n]>>
                     /\ (start = 2 /\ end = [none |-> FALSE, val |-> 5] /\ n = 10) =>
                            res = <<orig[3], orig[4], orig[5]>>

\* [-2:] has been taken of a notebook of ten cells
SliceWitness ==
    /\ nbc # 0 /\ IPYTHON_VERSION >= 3 /\ start = 0 - 2 /\ end.none
    /\ Len(heap0[nb].cells) = 10
    /\ heap[nbc].cells = <<9, 10>>

\* C8: SubCell.preprocess leaves the notebook it was given as it was: the
\* notebook object and each of its worksheets hold the cell lists they held
\* before the call, and what is returned is another object.
PreprocessKeepsOriginal ==
    nbc # 0 =>
        /\ nbc \notin DOMAIN heap0
        /\ \A o \in DOMAIN heap0 : heap[o] = heap0[o]
        /\ \A k \in 1..Len(heap[nbc].worksheets) :
             heap[nbc].worksheets[k] \notin DOMAIN heap0

\* a slice that drops cells has been taken of a notebook with two worksheets
KeepsOriginalWitness ==
    /\ nbc # 0 /\ IPYTHON_VERSION < 3
    /\ Len(heap0[nb].worksheets) = 2
    /\ \A k \in 1..2 : Len(CellLists(heap, nbc)[k]) < Len(CellLists(heap0, nb)[k])
    /\ CellLists(heap, nb) = CellLists(heap0, nb)

(***************************************************************************)
(* str.replace and the posixpath functions the tag calls (lines 311-324    *)
(* and 370-373), on texts.                                                 *)
(***************************************************************************)
\* s.replace(old, new): the occurrences of old found from left to right, none
\* overlapping another, each replaced once; the result is not searched again
RECURSIVE StrReplace(_, _, _)
StrReplace(s, old, new) ==
    IF s = <<>> THEN <<>>
    ELSE IF StartsWithAt(s, 1, old)
    THEN new \o StrReplace(From(s, Len(old) + 1), old, new)
    ELSE <<Head(s)>> \o StrReplace(Tail(s), old, new)

\* s.split('/')
RECURSIVE SplitSlash(_, _)
SplitSlash(s, cur) ==
    IF s = <<>> THEN <<cur>>
    ELSE IF Head(s) = "/" THEN <<cur>> \o SplitSlash(Tail(s), <<>>)
    ELSE SplitSlash(Tail(s), Append(cur, Head(s)))

\* '/'.join(comps)
RECURSIVE JoinSlash(_)
JoinSlash(comps) ==
    IF comps = <<>> THEN <<>>
    ELSE IF Len(comps) = 1 THEN comps[1]
    ELSE comps[1] \o <<"/">> \o JoinSlash(Tail(comps))

\* os.path.join(a, b)
PathJoin(a, b) ==
    IF b # <<>> /\ b[1] = "/" THEN b
    ELSE IF a = <<>> \/ a[Len(a)] = "/" THEN a \o b
    ELSE a \o <<"/">> \o b

\* the loop of posixpath.normpath over the components
RECURSIVE NormComps(_, _, _)
NormComps(comps, new, rooted) ==
    IF comps = <<>> THEN new
    ELSE LET c == Head(comps)
         IN  IF c = <<>> \/ c = <<".">> THEN NormComps(Tail(comps), new, rooted)
             ELSE IF \/ c # <<".", ".">>
                     \/ (~rooted /\ new = <<>>)
                     \/ (new # <<>> /\ new[Len(new)] = <<".", ".">>)
             THEN NormComps(Tail(comps), Append(new, c), rooted)
             ELSE IF new # <<>>
             THEN NormComps(Tail(comps), SubSeq(new, 1, Len(new) - 1), rooted)
             ELSE NormComps(Tail(comps), new, rooted)

\* the number of leading slashes normpath keeps: one, or two for exactly two
InitialSlashes(path) ==
    IF path[1] # "/" THEN 0
    ELSE IF StartsWithAt(path, 1, <<"/", "/">>) /\ ~StartsWithAt(path, 1, <<"/", "/", "/">>)
    THEN 2 ELSE 1

OrDot(p) == IF p = <<>> THEN <<".">> ELSE p

NormWith(path, slashes) ==
    OrDot([k \in 1..slashes |-> "/"]
          \o JoinSlash(NormComps(SplitSlash(path, <<>>), <<>>, slashes > 0)))

\* os.path.normpath(path)
NormPath(path) == IF path = <<>> THEN <<".">> ELSE NormWith(path, InitialSlashes(path))

\* the last position of p holding the character c, 0 when there is none
RECURSIVE RFind(_, _, _)
RFind(p, c, k) == IF k = 0 \/ p[k] = c THEN k ELSE RFind(p, c, k - 1)

LastSlash(p) == RFind(p, "/", Len(p))

\* s.rstrip('/')
RECURSIVE RStripSlash(_)
RStripSlash(s) ==
    IF s # <<>> /\ s[Len(s)] = "/" THEN RStripSlash(SubSeq(s, 1, Len(s) - 1)) ELSE s

DirHead(head) ==
    IF head # <<>> /\ \E k \in 1..Len(head) : head[k] # "/"
    THEN RStripSlash(head) ELSE head

\* os.path.dirname(p)
DirName(p) == DirHead(SubSeq(p, 1, LastSlash(p)))

SplitAt(p, sep, dot) ==
    IF dot > sep /\ \E k \in (sep + 1)..(dot - 1) : p[k] # "."
    THEN SubSeq(p, 1, dot - 1) ELSE p

\* os.path.splitext(p)[0]: the last dot of the last component starts the
\* extension unless only dots precede it in that component
SplitExtRoot(p) == SplitAt(p, LastSlash(p), RFind(p, ".", Len(p)))

\* the working directory of the build
Cwd == <<"/", "w">>

\* os.path.abspath(p)
AbsPath(p) == NormPath(PathJoin(Cwd, p))

NonEmpty(comps) == SelectSeq(comps, LAMBDA c : c # <<>>)

RECURSIVE CommonLen(_, _)
CommonLen(a, b) ==
    IF a = <<>> \/ b = <<>> \/ Head(a) # Head(b) THEN 0
    ELSE 1 + CommonLen(Tail(a), Tail(b))

DotDots(n) == [k \in 1..n |-> <<".", ".">>]

RelFrom(sl, pl, i) ==
    OrDot(JoinSlash(DotDots(Len(sl) - i) \o SubSeq(pl, i + 1, Len(pl))))

RelLists(sl, pl) == RelFrom(sl, pl, CommonLen(sl, pl))

\* os.path.relpath(path, start)
RelPath(path, from) ==
    RelLists(NonEmpty(SplitSlash(AbsPath(from), <<>>)),
             NonEmpty(SplitSlash(AbsPath(path), <<>>)))

(***************************************************************************)
(* The file system, as far as the tag touches it.  Directories and files   *)
(* are kept by their absolute path; there are no symbolic links.           *)
(***************************************************************************)
L_output  == <<"o", "u", "t", "p", "u", "t">>
L_content == <<"c", "o", "n", "t", "e", "n", "t">>
L_dotdot_slash == <<".", ".", "/">>

\* os.path.isdir(p)
IsDir(dirs, p) == p # <<>> /\ AbsPath(p) \in dirs

\* an absolute directory and the directories above it
RECURSIVE Chain(_)
Chain(a) == IF DirName(a) = a THEN {a} ELSE {a} \cup Chain(DirName(a))

MakeChain(dirs, files, chain) ==
    IF chain \cap files # {}
    THEN [ok |-> FALSE, dirs |-> dirs]
    ELSE [ok |-> TRUE, dirs |-> dirs \cup chain]

\* os.makedirs(p): FileNotFoundError for '', an error when a file is in the way
MakeDirs(dirs, files, p) ==
    IF p = <<>> THEN [ok |-> FALSE, dirs |-> dirs]
    ELSE MakeChain(dirs, files, Chain(AbsPath(p)))

OpenAbs(dirs, files, a) ==
    IF a \in dirs \/ DirName(a) \notin dirs
    THEN [ok |-> FALSE, files |-> files]
    ELSE [ok |-> TRUE, files |-> files \cup {a}]

\* open(p, 'wb') and the write: an error when p is a directory or lies in none
OpenWrite(dirs, files, p) == OpenAbs(dirs, files, AbsPath(p))

\* line 370-371: where the entry called name is written
NewName(name) == NormPath(PathJoin(L_output, StrReplace(name, L_dotdot_slash, <<>>)))

\* lines 376-377, the directory being there
Written(dirs, opened, new_name) ==
    [ok |-> opened.ok, dirs |-> dirs, files |-> opened.files, new_name |-> new_name]

\* lines 372-377, made being what os.makedirs did
AfterMakeDirs(dirs, files, new_name, made) ==
    IF ~made.ok
    THEN [ok |-> FALSE, dirs |-> dirs, files |-> files, new_name |-> new_name]
    ELSE Written(made.dirs, OpenWrite(made.dirs, files, new_name), new_name)

\* lines 372-373
EnsureDir(dirs, files, dir) ==
    IF ~IsDir(dirs, dir) THEN MakeDirs(dirs, files, dir)
    ELSE [ok |-> TRUE, dirs |-> dirs]

WriteAt(dirs, files, new_name) ==
    AfterMakeDirs(dirs, files, new_name, EnsureDir(dirs, files, DirName(new_name)))

\* the body of the loop of lines 368-377 for one entry of resources['outputs']
WriteEntry(dirs, files, name) == WriteAt(dirs, files, NewName(name))

\* the directories the build starts with: the working directory, and perhaps
\* an output directory left by an earlier build
BaseDirs   == {<<"/">>, Cwd}
OutputDir  == AbsPath(L_output)
StartDirs  == {BaseDirs, BaseDirs \cup {OutputDir}}

\* whether the absolute path a lies inside the output directory
InsideOutput(a) == StartsWithAt(a, 1, OutputDir \o <<"/">>) /\ Len(a) > Len(OutputDir) + 1

(***************************************************************************)
(* The output loop on its own, over entry names of any shape: the exporter *)
(* takes a name from the notebook when the notebook gives one.             *)
(***************************************************************************)
MaxSegs == 4   \* components of an entry name

NameSegs == {<<"a">>, <<".">>, <<".", ".">>, <<".", ".", ".", ".">>, <<>>}

RECURSIVE NamesOf(_)
NamesOf(k) ==
    IF k = 1 THEN NameSegs
    ELSE {a \o <<"/">> \o b : a \in NamesOf(k - 1), b \in NameSegs}

EntryNames == UNION {NamesOf(k) : k \in 1..MaxSegs}

Entry(name, ci, idx) == [name |-> name, cell_index |-> ci, index |-> idx]
NoConf == [nb_dir |-> <<>>, notebook_output |-> <<>>, src |-> <<>>,
           unique_key |-> <<>>, exported |-> TRUE]

InitPath ==
    /\ conf = NoConf
    /\ \E n \in EntryNames : outputs = {Entry(n, 0 - 1, 0 - 1)}
    /\ written = {}
    /\ fs_dirs \in StartDirs
    /\ fs_files = {}
    /\ MainIdle /\ ParseIdle /\ SliceIdle

\* one turn of the loop of lines 368-377
WriteOut(e) ==
    /\ e \in outputs
    /\ \E r \in {WriteEntry(fs_dirs, fs_files, e.name)} :
           /\ fs_dirs' = r.dirs
           /\ fs_files' = r.files
           /\ written' = written \cup {[entry |-> e, new_name |-> r.new_name, ok |-> r.ok]}
           \* an exception ends the loop
           /\ outputs' = IF r.ok THEN outputs \ {e} ELSE {}
    /\ UNCHANGED <<conf, mainVars, parseVars, sliceVars>>

\* the same turn when the system refuses the write (permissions, a full disk)
WriteOutRefused(e) ==
    /\ e \in outputs
    /\ \E r \in {WriteEntry(fs_dirs, fs_files, e.name)} :
           r.ok /\ fs_dirs' = r.dirs
    /\ written' = written \cup {[entry |-> e, new_name |-> NewName(e.name), ok |-> FALSE]}
    /\ outputs' = {}
    /\ UNCHANGED <<fs_files, conf, mainVars, parseVars, sliceVars>>

NextPath == \E e \in outputs : WriteOut(e) \/ WriteOutRefused(e)

SpecPath == InitPath /\ [][NextPath]_vars

\* C7: whatever the name of an entry, the path its content is written to
\* lies inside the directory 'output', and the directory it is written in
\* exists by then.
OutputsStayInsideOutput ==
    /\ \A f \in fs_files : InsideOutput(f) /\ DirName(f) \in fs_dirs
    /\ \A w \in written : w.ok => InsideOutput(AbsPath(w.new_name))

(***************************************************************************)
(* The names ExtractOutputPreprocessor makes from the template of lines    *)
(* 316-328, and the loop over them.                                        *)
(***************************************************************************)
L_nb   == <<"n", "b">>
L_nb_s == <<"n", "b", "/", "s">>
L_img  == <<"i", "m", "g">>
L_nb_o == <<"n", "b", "/", "o">>
L_src1 == <<"n", ".", "i">>
L_src2 == <<"d", "/", "n", ".", "i">>
L_src3 == <<".", ".", "/", "n", ".", "i">>
L_png  == <<".", "p", "n", "g">>
L_svg  == <<".", "s", "v", "g">>

Configs ==
    [nb_dir : {L_nb, L_nb_s}, notebook_output : {L_img, L_nb_o},
     src : {L_src1, L_src2, L_src3}, unique_key : {L_output}, exported : {FALSE}]

\* line 311
NbPath(nb_dir, src) == PathJoin(PathJoin(L_content, nb_dir), src)

\* lines 318-324, up to the '+': the text before '_{unique_key}'
TemplatePrefix(c) ==
    PathJoin(RelPath(PathJoin(L_content, c.notebook_output),     \* output_prefix
                     DirName(NbPath(c.nb_dir, c.src))),          \* rel_output_prefix
             SplitExtRoot(c.src))

\* a template without {cell_index}
FormatName_NoCellIndex(c, ci, idx, ext) ==
    TemplatePrefix(c) \o <<"_">> \o c.unique_key \o <<"_">> \o IntToStr(idx) \o ext

\* tmpl.format(unique_key=..., cell_index=..., index=..., extension=...) with
\* tmpl ending in '_{unique_key}_{cell_index}_{index}{extension}' (line 324)
FormatName(c, ci, idx, ext) ==
    TemplatePrefix(c) \o <<"_">> \o c.unique_key \o <<"_">> \o IntToStr(ci)
    \o <<"_">> \o IntToStr(idx) \o ext

CellIndexes == {1, 11}
OutIndexes  == {1, 11}
Extensions  == {L_png, L_svg}
Extracted   == CellIndexes \X OutIndexes \X Extensions

\* the sets of at most k extracted outputs
RECURSIVE UpTo(_)
UpTo(k) ==
    IF k = 0 THEN {{}}
    ELSE UpTo(k - 1) \cup {S \cup {x} : S \in UpTo(k - 1), x \in Extracted}

InitExtract ==
    /\ conf \in Configs
    /\ outputs = {}
    /\ written = {}
    /\ fs_dirs \in StartDirs
    /\ fs_files = {}
    /\ MainIdle /\ ParseIdle /\ SliceIdle

\* exporter.from_notebook_node (line 367): the outputs extracted from the
\* cells, each named by the template
Extract ==
    /\ ~conf.exported
    /\ \E S \in UpTo(MaxOutputs) :
         /\ outputs' = {Entry(FormatName(conf, x[1], x[2], x[3]), x[1], x[2]) : x \in S}
    /\ conf' = [conf EXCEPT !.exported = TRUE]
    /\ UNCHANGED <<written, fsVars, mainVars, parseVars, sliceVars>>

NextExtract ==
    \/ Extract
    \/ \E e \in outputs : WriteOut(e) \/ WriteOutRefused(e)

SpecExtract == InitExtract /\ [][NextExtract]_vars

\* C9: within one conversion, two extracted outputs that differ in the cell
\* they come from or in their output index get different file names, and the
\* loop writes them to different paths: every name has the form
\* <prefix>_<unique_key>_<cell_index>_<index><extension>, and as many files
\* exist as entries were written.
ExtractedNamesDistinct ==
    LET all == outputs \cup {w.entry : w \in written}
    IN  /\ \A e1, e2 \in all :
              (e1.cell_index # e2.cell_index \/ e1.index # e2.index) =>
                  /\ e1.name # e2.name
                  /\ NewName(e1.name) # NewName(e2.name)
        /\ \A e \in all :
              \E ext \in Extensions :
                  e.name = TemplatePrefix(conf) \o <<"_">> \o conf.unique_key
                           \o <<"_">> \o IntToStr(e.cell_index) \o <<"_">>
                           \o IntToStr(e.index) \o ext
        /\ Cardinality(fs_files) = Cardinality({w \in written : w.ok})

\* two outputs of different cells have both been written, from a source in a
\* subdirectory whose template starts with '../'
ExtractWitness ==
    /\ conf.exported /\ outputs = {}
    /\ StartsWithAt(TemplatePrefix(conf), 1, L_dotdot_slash)
    /\ \E w1, w2 \in written :
         /\ w1.ok /\ w2.ok
         /\ w1.entry.cell_index = 1 /\ w2.entry.cell_index = 11
         /\ w1.entry.index = 11 /\ w2.entry.index = 1
         /\ AbsPath(w1.new_name) \in fs_files /\ AbsPath(w2.new_name) \in fs_files

(***************************************************************************)
(* notebook(preprocessor, tag, markup), lines 280-395, step by step.  A    *)
(* thread is idle, inside one call, or has left its last call by a return  *)
(* ("done") or by an exception ("failed").                                 *)
(***************************************************************************)
Threads == {1, 2}

\* NOTEBOOK_DIR and NOTEBOOK_OUTPUT of the build, and the notebooks there are
NOTEBOOK_DIR    == L_nb
NOTEBOOK_OUTPUT == L_img
Notebooks       == {NbPath(NOTEBOOK_DIR, L_src1)}

L_missing == <<"x", ".", "i">>

\* the directives of the build's posts, with what the grammar says of each
Markups ==
    {[text |-> L_src1, meaning |-> [NoMeaning EXCEPT !.wellformed = TRUE, !.src = L_src1]],
     [text |-> L_missing,
      meaning |-> [NoMeaning EXCEPT !.wellformed = TRUE, !.src = L_missing]],
     [text |-> <<>>, meaning |-> NoMeaning],
     [text |-> L_src1 \o <<" ">> \o LitCells \o <<"a", "b", "c", ":", "2", "]">>,
      meaning |-> NoMeaning],
     [text |-> L_src1 \o <<" ">> \o LitCells \o <<"-", ":", "2", "]">>,
      meaning |-> NoMeaning]}

\* resources['inlining']['css'] of a conversion: a list of stylesheet texts
CssLists == {<<"A">>, <<"B", "C">>}

\* CSS_WRAPPER.format(css_line) (lines 219-223), as tokens
CssWrapper(css_line) == <<"<style>", css_line, "</style>">>

RECURSIVE JoinLines(_)
JoinLines(parts) ==
    IF parts = <<>> THEN <<>>
    ELSE IF Len(parts) = 1 THEN parts[1]
    ELSE parts[1] \o <<"\n">> \o JoinLines(Tail(parts))

\* lines 384-386: the text of the header
HeaderText(css) ==
    JoinLines([k \in 1..Len(css) |-> CssWrapper(css[k])]) \o <<"JS_INCLUDE">>

\* a write of data at offset 0 of a file holding old
Overlay(old, data) == data \o SubSeq(old, Len(data) + 1, Len(old))

NoFile   == [exists |-> FALSE, data |-> <<>>]
NoLocals ==
    [id |-> 0, markup |-> <<>>, meaning |-> NoMeaning, args |-> Unparsed,
     nb_path |-> <<>>, exported |-> FALSE, css |-> <<>>, todo |-> {},
     wrote |-> {}, header |-> <<>>, in_header |-> FALSE, saved0 |-> FALSE,
     error |-> "none", error_path |-> <<>>]

Event(kind, t) == [kind |-> kind, id |-> local[t].id, css |-> local[t].css]

Init ==
    /\ header_saved = FALSE                 \* line 397
    /\ header_file = NoFile
    /\ fs_dirs \in StartDirs
    /\ fs_files = {}
    /\ pc = [t \in Threads |-> "idle"]
    /\ local = [t \in Threads |-> NoLocals]
    /\ calls = 0
    /\ hdr_log = <<>>
    /\ ParseIdle /\ SliceIdle /\ OutIdle

Frame == UNCHANGED <<parseVars, sliceVars, outVars>>

\* an exception leaves the call
Raise(t, err, path) ==
    /\ pc' = [pc EXCEPT ![t] = "failed"]
    /\ local' = [local EXCEPT ![t].error = err, ![t].error_path = path]

\* the tag is expanded for a directive of a post
Call(t, m) ==
    /\ pc[t] \in {"idle", "done", "failed"}
    /\ calls' = calls + 1
    /\ pc' = [pc EXCEPT ![t] = "parse"]
    /\ local' = [local EXCEPT ![t] = [NoLocals EXCEPT !.id = calls + 1,
                                         !.markup = m.text, !.meaning = m.meaning,
                                         !.saved0 = header_saved]]
    /\ UNCHANGED <<header_saved, header_file, fsVars, hdr_log>>
    /\ Frame

\* lines 281-311
Parse(t) ==
    /\ pc[t] = "parse"
    /\ \E a \in {ParseMarkup(local[t].markup)} :
           IF a.error # "none"
           THEN Raise(t, a.error, <<>>)
           ELSE /\ pc' = [pc EXCEPT ![t] = "exists"]
                /\ local' = [local EXCEPT ![t].args = a,
                                          ![t].nb_path = NbPath(NOTEBOOK_DIR, a.src)]
    /\ UNCHANGED <<header_saved, header_file, fsVars, calls, hdr_log>>
    /\ Frame

\* the test of line 313 left out
CheckExists_NoCheck(t) ==
    /\ pc[t] = "exists"
    /\ pc' = [pc EXCEPT ![t] = "export"]
    /\ UNCHANGED <<local, header_saved, header_file, fsVars, calls, hdr_log>>
    /\ Frame

\* lines 313-314
CheckExists(t) ==
    /\ pc[t] = "exists"
    /\ IF local[t].nb_path \notin Notebooks
       THEN Raise(t, "notfound", local[t].nb_path)
       ELSE /\ pc' = [pc EXCEPT ![t] = "export"]
            /\ UNCHANGED local
    /\ UNCHANGED <<header_saved, header_file, fsVars, calls, hdr_log>>
    /\ Frame

\* the outputs a conversion may extract, named by the template of line 324
MainConf(src) ==
    [nb_dir |-> NOTEBOOK_DIR, notebook_output |-> NOTEBOOK_OUTPUT, src |-> src,
     unique_key |-> L_output, exported |-> FALSE]
OutputSets(src) == {{}, {Entry(FormatName(MainConf(src), 1, 1, L_png), 1, 1)}}

\* lines 316-367: the exporter is built, the notebook read and converted
Export(t) ==
    /\ pc[t] = "export"
    /\ \E css \in CssLists, outs \in OutputSets(local[t].args.src) :
         /\ pc' = [pc EXCEPT ![t] = "outputs"]
         /\ local' = [local EXCEPT ![t].exported = TRUE, ![t].css = css,
                                   ![t].todo = outs]
    /\ UNCHANGED <<header_saved, header_file, fsVars, calls, hdr_log>>
    /\ Frame

\* line 367 when the exporter raises
ExportFails(t) ==
    /\ pc[t] = "export"
    /\ pc' = [pc EXCEPT ![t] = "failed"]
    /\ local' = [local EXCEPT ![t].exported = TRUE, ![t].error = "conversion"]
    /\ UNCHANGED <<header_saved, header_file, fsVars, calls, hdr_log>>
    /\ Frame

\* lines 368-377, one turn of the loop
WriteOutput(t, e) ==
    /\ pc[t] = "outputs"
    /\ e \in local[t].todo
    /\ \E r \in {WriteEntry(fs_dirs, fs_files, e.name)} :
           /\ fs_dirs' = r.dirs
           /\ fs_files' = r.files
           /\ IF r.ok
              THEN /\ local' = [local EXCEPT ![t].todo = @ \ {e},
                                             ![t].wrote = @ \cup {AbsPath(r.new_name)}]
                   /\ UNCHANGED pc
              ELSE Raise(t, "io", r.new_name)
    /\ UNCHANGED <<header_saved, header_file, calls, hdr_log>>
    /\ Frame

\* the same turn when the system refuses the write
WriteOutputRefused(t, e) ==
    /\ pc[t] = "outputs"
    /\ e \in local[t].todo
    /\ Raise(t, "io", NewName(e.name))
    /\ UNCHANGED <<header_saved, header_file, fsVars, calls, hdr_log>>
    /\ Frame

\* the flag not looked at
HeaderNeeded_Always(saved) == TRUE

\* line 380: the test of the flag
HeaderNeeded(saved) == ~saved

\* the loop is over; lines 380-386
HeaderCheck(t) ==
    /\ pc[t] = "outputs"
    /\ local[t].todo = {}
    /\ IF HeaderNeeded(header_saved)
       THEN /\ pc' = [pc EXCEPT ![t] = "open"]
            /\ local' = [local EXCEPT ![t].header = HeaderText(local[t].css),
                                      ![t].in_header = TRUE]
            /\ hdr_log' = Append(hdr_log, Event("branch", t))
       ELSE /\ pc' = [pc EXCEPT ![t] = "stash"]
            /\ UNCHANGED <<local, hdr_log>>
    /\ UNCHANGED <<header_saved, header_file, fsVars, calls>>
    /\ Frame

\* the flag set as soon as the file is open, before the write
HeaderOpen_SetsFlag(t) ==
    /\ pc[t] = "open"
    /\ header_file' = [exists |-> TRUE, data |-> <<>>]
    /\ header_saved' = TRUE
    /\ hdr_log' = Append(hdr_log, Event("open", t))
    /\ pc' = [pc EXCEPT ![t] = "write"]
    /\ UNCHANGED <<local, fsVars, calls>>
    /\ Frame

\* line 388: open('_nb_header.html', 'w') truncates the file
HeaderOpen(t) ==
    /\ pc[t] = "open"
    /\ header_file' = [exists |-> TRUE, data |-> <<>>]
    /\ hdr_log' = Append(hdr_log, Event("open", t))
    /\ pc' = [pc EXCEPT ![t] = "write"]
    /\ UNCHANGED <<header_saved, local, fsVars, calls>>
    /\ Frame

\* line 388 when the file cannot be opened
HeaderOpenRefused(t) ==
    /\ pc[t] = "open"
    /\ Raise(t, "io", <<>>)
    /\ UNCHANGED <<header_saved, header_file, fsVars, calls, hdr_log>>
    /\ Frame

\* the file opened for appending
WriteData_Append(old, data) == old \o data

\* what line 389 and the end of the with block put into the file: the text,
\* from the start of the file
WriteData(old, data) == Overlay(old, data)

\* line 389 and the end of the with block: the text reaches the file
HeaderWrite(t) ==
    /\ pc[t] = "write"
    /\ header_file' = [exists |-> TRUE,
                       data |-> WriteData(header_file.data, local[t].header)]
    /\ hdr_log' = Append(hdr_log, Event("written", t))
    /\ pc' = [pc EXCEPT ![t] = "flag"]
    /\ UNCHANGED <<header_saved, local, fsVars, calls>>
    /\ Frame

\* line 389 when the write or the close fails
HeaderWriteRefused(t) ==
    /\ pc[t] = "write"
    /\ Raise(t, "io", <<>>)
    /\ UNCHANGED <<header_saved, header_file, fsVars, calls, hdr_log>>
    /\ Frame

\* line 390
SetHeaderSaved(t) ==
    /\ pc[t] = "flag"
    /\ header_saved' = TRUE
    /\ hdr_log' = Append(hdr_log, Event("flag", t))
    /\ pc' = [pc EXCEPT ![t] = "stash"]
    /\ UNCHANGED <<header_file, local, fsVars, calls>>
    /\ Frame

\* lines 394-395
Stash(t) ==
    /\ pc[t] = "stash"
    /\ pc' = [pc EXCEPT ![t] = "done"]
    /\ UNCHANGED <<header_saved, header_file, local, fsVars, calls, hdr_log>>
    /\ Frame

\* the next directive is expanded, as long as the run has some left
Start(t, limit, ms) == calls < limit /\ \E m \in ms : Call(t, m)

Step(t) ==
    \/ Parse(t)
    \/ CheckExists(t)
    \/ Export(t)
    \/ ExportFails(t)
    \/ \E e \in local[t].todo : WriteOutput(t, e)
    \/ \E e \in local[t].todo : WriteOutputRefused(t, e)
    \/ HeaderCheck(t)
    \/ HeaderOpen(t)
    \/ HeaderOpenRefused(t)
    \/ HeaderWrite(t)
    \/ HeaderWriteRefused(t)
    \/ SetHeaderSaved(t)
    \/ Stash(t)

\* the build as it is run: one directive after the other, each to its end
Next == \E t \in {1} : Start(t, MaxCalls, Markups) \/ Step(t)
Spec == Init /\ [][Next]_vars

\* two expansions at a time, of directives that are in order
ConcMarkups == {m \in Markups : m.text = L_src1}
InitConc == Init /\ fs_dirs = BaseDirs
NextConc == \E t \in Threads : Start(t, MaxConcCalls, ConcMarkups) \/ Step(t)
SpecConc == InitConc /\ [][NextConc]_vars

(***************************************************************************)
(* The header file over a run.                                             *)
(***************************************************************************)
OfKind(kind) == SelectSeq(hdr_log, LAMBDA e : e.kind = kind)
HeaderWrites == OfKind("written")

\* C1 as stated: the first expansion that reaches the header step is the one
\* that writes the header file, from its own CSS, and every later expansion
\* skips the write: all that ever happens to the file is the work of that
\* first expansion, and the file never holds another expansion's CSS.
OnlyFirstAtHeaderStepWrites ==
    /\ \A k \in 1..Len(hdr_log) : hdr_log[k].id = hdr_log[1].id
    /\ header_file.data # <<>> => header_file.data = HeaderText(hdr_log[1].css)

\* C1 as amended: the header file is written to its end at most once in a
\* run; the expansion whose write completes writes the CSS of its own
\* resources followed by the fixed block, nothing happens to the file after
\* that, and once the flag is set the file holds exactly that text.
HeaderWrittenOnce ==
    /\ Len(HeaderWrites) <= 1
    /\ \A k \in 1..Len(hdr_log) :
         hdr_log[k].kind = "written" =>
             /\ header_file = [exists |-> TRUE, data |-> HeaderText(hdr_log[k].css)]
             /\ \A j \in (k + 1)..Len(hdr_log) :
                  hdr_log[j].kind = "flag" /\ hdr_log[j].id = hdr_log[k].id
    /\ header_saved => Len(HeaderWrites) = 1

\* a later expansion with other CSS has run to its end and left the file alone
LaterExpansionSkipped ==
    /\ pc[1] = "done" /\ header_saved /\ Len(HeaderWrites) = 1
    /\ local[1].id > HeaderWrites[1].id
    /\ local[1].css # HeaderWrites[1].css
    /\ ~local[1].in_header
    /\ header_file.data = HeaderText(HeaderWrites[1].css)

\* C6: the flag is set only once a header write has completed, and an
\* expansion that fails, at whatever step, leaves the flag as it found it.
FlagOnlyAfterHeaderWrite ==
    /\ header_saved =>
         \E k \in 1..Len(hdr_log) :
             /\ hdr_log[k].kind = "written"
             /\ header_file.exists
             /\ header_file.data = HeaderText(hdr_log[k].css)
    /\ pc[1] = "failed" => header_saved = local[1].saved0

\* an expansion failed inside the header step, and a later one wrote the header
HeaderWrittenAfterFailure ==
    /\ pc[1] = "done" /\ header_saved /\ local[1].in_header
    /\ \E k \in 1..Len(hdr_log) :
         hdr_log[k].kind = "open" /\ hdr_log[k].id < local[1].id
    /\ header_file.data = HeaderText(local[1].css)

\* content/<NOTEBOOK_DIR>/<src>
ResolvedPath(src) == L_content \o <<"/">> \o NOTEBOOK_DIR \o <<"/">> \o src

\* C5: an expansion of a well-formed directive whose notebook does not exist
\* gets no further than the test of line 313: it fails with the not-found
\* error carrying content/<NOTEBOOK_DIR>/<src>, the exporter was not built
\* or run, no output and no header was written, and the flag is as before.
MissingNotebookFailsFirst ==
    \A t \in Threads :
        (/\ local[t].meaning.wellformed
         /\ pc[t] \notin {"idle", "parse", "exists"}
         /\ ResolvedPath(local[t].meaning.src) \notin Notebooks) =>
            /\ pc[t] = "failed"
            /\ local[t].error = "notfound"
            /\ local[t].error_path = ResolvedPath(local[t].meaning.src)
            /\ ~local[t].exported
            /\ local[t].wrote = {}
            /\ ~local[t].in_header
            /\ header_saved = local[t].saved0

\* a missing notebook was asked for after the header had been written
MissingNotebookWitness ==
    /\ pc[1] = "failed" /\ local[1].error = "notfound"
    /\ local[1].markup = L_missing
    /\ header_saved /\ header_file.data # <<>>

\* C4: an expansion of a text outside the grammar fails with the error that
\* names the expected syntax, and has converted and written nothing.
MalformedRaisesSyntaxError ==
    \A t \in Threads :
        (~local[t].meaning.wellformed /\ pc[t] \notin {"idle", "parse"}) =>
            /\ pc[t] = "failed"
            /\ local[t].error = "syntax"
            /\ ~local[t].exported
            /\ local[t].wrote = {}
            /\ ~local[t].in_header

\* whether text h is the start of text d
IsPrefix(h, d) == Len(h) <= Len(d) /\ SubSeq(d, 1, Len(h)) = h

\* C10: with two expansions at a time the test of the flag and the write
\* are not one step.  An expansion takes the write branch whenever the flag
\* was not yet set when it tested it, however many others are already
\* writing; and when a write has completed and no later open has truncated
\* the file, the file starts with the text of the expansion that wrote last.
RacingWritersLastWins ==
    /\ \A k \in 1..Len(hdr_log) :
         hdr_log[k].kind = "branch" =>
             \A j \in 1..(k - 1) : hdr_log[j].kind # "flag"
    /\ \A k \in 1..Len(hdr_log) :
         (/\ hdr_log[k].kind = "written"
          /\ \A j \in (k + 1)..Len(hdr_log) : hdr_log[j].kind \notin {"open", "written"}) =>
             IsPrefix(HeaderText(hdr_log[k].css), header_file.data)

\* both expansions tested the flag before either set it, both wrote, and the
\* file does not hold what the first writer wrote
BothWroteHeader ==
    /\ pc[1] = "done" /\ pc[2] = "done" /\ header_saved
    /\ Len(HeaderWrites) = 2
    /\ HeaderWrites[1].css # HeaderWrites[2].css
    /\ header_file.data # HeaderText(HeaderWrites[1].css)

=============================================================================
